---- MODULE Spec2Model ----
(***************************************************************************)
(* A model of ipyrad/load/load.py: the loader of archived Assembly        *)
(* objects.                                                                *)
(*                                                                         *)
(*   load_assembly / test_assembly / update_assembly                       *)
(*       the binary (dill) snapshot loader, the schema differ and the      *)
(*       schema migrator;                                                  *)
(*   save_json / load_json                                                 *)
(*       the structured text codec.                                        *)
(*                                                                         *)
(* A Python object is a record of its attributes (its __dict__): an        *)
(* attribute the object lacks is a field the record lacks.  A dict is a    *)
(* function from its keys to its values.  A path is the sequence of its    *)
(* pieces, so that "+" on paths is \o.  A local variable that may be       *)
(* unbound, and the content of a file that may not exist, is a sequence    *)
(* of length at most one.                                                  *)
(***************************************************************************)
EXTENDS Integers, Sequences, FiniteSets, TLC

VARIABLES
    assemblyname,   \* the name load_assembly is asked for
    disk,           \* binary snapshots: candidate path -> <<>> or <<object>>
    call,           \* the function entered last
    arg,            \* <<object>> handed to test_assembly / update_assembly
    ret,            \* how the last call of the snapshot loader ended
    log,            \* test_assembly / update_assembly / save events of that call
    printed,        \* the "loading Assembly" notices of that call
    jdisk,          \* text files: path -> <<>> or <<content>>
    data,           \* <<Assembly>> handed to save_json
    pc,             \* position inside save_json
    done,           \* save_json's local "done"
    interrupts,     \* KeyboardInterrupt / SystemExit signals delivered so far
    hit,            \* position at which the last signal was delivered
    jpath,          \* the path load_json was asked for
    jret,           \* how the last call of load_json ended
    jprinted        \* the "loading Assembly" notices of that call

vars == <<assemblyname, disk, call, arg, ret, log, printed,
          jdisk, data, pc, done, interrupts, hit, jpath, jret, jprinted>>

binvars  == <<assemblyname, disk, call, arg, ret, log, printed>>
jsonvars == <<jdisk, data, pc, done, interrupts, hit, jpath, jret, jprinted>>

(***************************************************************************)
(* Bounds of the model.                                                    *)
(***************************************************************************)
MaxOldParams  == 1   \* parameters of older releases, no longer in the schema
MaxSamples    == 2   \* sample names an Assembly may hold
MaxInterrupts == 2   \* signals delivered while save_json runs

(***************************************************************************)
(* Values.  A string is the sequence of its pieces; a parameter value has  *)
(* a Python type, which the text codec does not always keep.               *)
(***************************************************************************)
Value(type, val) == [type |-> type, val |-> val]
Str(val)   == Value("str", val)
Tuple(val) == Value("tuple", val)

(***************************************************************************)
(* The current schema, as a freshly built ip.Assembly(name) shows it.      *)
(***************************************************************************)
NewParamKeys  == {"assembly_name", "restriction_overhang"}
OldParamKeys  == {"old_param" \o ToString(i) : i \in 1..MaxOldParams}
ParamKeys     == NewParamKeys \cup OldParamKeys
NewHackerKeys == {"random_seed"}
OldHackerKeys == {"old_hack"}
HackerKeys    == NewHackerKeys \cup OldHackerKeys

ParamType(k) == IF k = "restriction_overhang" THEN "tuple" ELSE "str"

CurrentVersion == <<"0.1.47">>

DefaultParam(k, name) ==
    IF k = "assembly_name" THEN Str(name)
    ELSE Value(ParamType(k), <<"default">>)

Assembly(name) ==
    [name         |-> name,
     _version     |-> CurrentVersion,
     dirs         |-> [project |-> <<".">>],
     paramsdict   |-> [k \in NewParamKeys |-> DefaultParam(k, name)],
     _hackersonly |-> [k \in NewHackerKeys |-> Value("int", <<"default">>)],
     samples      |-> [s \in {} |-> <<>>],
     statsfiles   |-> [s \in {} |-> <<>>],
     populations  |-> <<>>,
     database     |-> <<>>,
     outfiles     |-> <<>>,
     barcodes     |-> <<>>]

HasAttr(obj, a) == a \in DOMAIN obj

SetAttr(obj, a, v) ==
    [x \in DOMAIN obj \cup {a} |-> IF x = a THEN v ELSE obj[x]]

(***************************************************************************)
(* What a snapshot file may hold: an Assembly pickled by any release, so   *)
(* with any set of parameter keys, any set of _hackersonly keys, or (a     *)
(* release older than that attribute) no _hackersonly at all.              *)
(***************************************************************************)
ObjNames == {<<"proj">>, <<"other">>}

StoredParams(keys, name) ==
    [k \in keys |-> IF k = "assembly_name" THEN Str(name)
                    ELSE Value(ParamType(k), <<"user">>)]

StoredObjects ==
    {[name |-> n, paramsdict |-> StoredParams(ks, n)] :
        n \in ObjNames, ks \in SUBSET ParamKeys}
    \cup
    {[name |-> n, paramsdict |-> StoredParams(ks, n),
      _hackersonly |-> [h \in hs |-> Value("int", <<"user">>)]] :
        n \in ObjNames, ks \in SUBSET ParamKeys, hs \in SUBSET HackerKeys}

HomeDir == "/home/user"
AssemblyNames == {<<"proj">>, <<HomeDir, "/proj">>}

\* name.replace(os.path.expanduser("~"), "~")
ShortName(name) ==
    [i \in 1..Len(name) |-> IF name[i] = HomeDir THEN "~" ELSE name[i]]

(***************************************************************************)
(* Outcomes of a call.                                                     *)
(***************************************************************************)
NoResult == [kind |-> "none", exc |-> "", msg |-> <<>>, data |-> <<>>,
             flag |-> FALSE]
Return(obj) == [kind |-> "return", exc |-> "", msg |-> <<>>, data |-> <<obj>>,
                flag |-> FALSE]
ReturnFlag(obj, b) == [kind |-> "return", exc |-> "", msg |-> <<>>,
                       data |-> <<obj>>, flag |-> b]
Raise(e, m, d) == [kind |-> "raise", exc |-> e, msg |-> m, data |-> d,
                   flag |-> FALSE]

\* what a call did: the function entered, the object it was given (for a
\* save, the object saved), whether it came back, the notices it printed
Event(e, obj, ok, notices) ==
    [ev |-> e, data |-> obj, ok |-> ok, notices |-> notices]

(***************************************************************************)
(* test_assembly: the schema differ.  The result carries the object as the *)
(* call leaves it.                                                         *)
(***************************************************************************)
ParamsDiffSymmetric(new_params, my_params) ==
    (new_params \ my_params) \cup (my_params \ new_params)

ParamsDiff(new_params, my_params) == new_params \ my_params

test_assembly(obj) ==
    LET new_assembly == Assembly(obj.name)
        new_params   == DOMAIN new_assembly.paramsdict
        my_params    == DOMAIN obj.paramsdict
        params_diff  == ParamsDiff(new_params, my_params)
        result1      == params_diff # {}
    IN  IF ~HasAttr(obj, "_hackersonly")
        THEN Raise("AttributeError", <<>>, <<obj>>)
        ELSE LET my_hackerdict   == DOMAIN obj._hackersonly
                 new_hackerdict  == DOMAIN new_assembly._hackersonly
                 hackerdict_diff == ParamsDiff(new_hackerdict, my_hackerdict)
             IN  ReturnFlag(obj, result1 \/ hackerdict_diff # {})

(***************************************************************************)
(* Assembly.save(): a full snapshot save, which as any write may fail with *)
(* IOError.                                                                *)
(***************************************************************************)
Save(obj, save_ok) ==
    IF save_ok THEN <<Event("save", obj, TRUE, {})>>
               ELSE <<Event("save", obj, FALSE, {})>>

(***************************************************************************)
(* update_assembly: the schema migrator.  It mutates the object it is      *)
(* given: .data is that object as the call leaves it, also when the call   *)
(* raises.  The pause of time.sleep(5) changes nothing and is left out.    *)
(***************************************************************************)
MergedParams(new_assembly, obj, removed_params) ==
    [i \in DOMAIN new_assembly.paramsdict
           \cup {j \in DOMAIN obj.paramsdict : j \notin removed_params} |->
        IF i \in DOMAIN obj.paramsdict /\ i \notin removed_params
        THEN obj.paramsdict[i]
        ELSE new_assembly.paramsdict[i]]

Notices(new_assembly, obj, removed_params, added_params) ==
    {<<"Removing parameter", i, obj.paramsdict[i]>> : i \in removed_params}
    \cup
    {<<"Adding parameter", i, new_assembly.paramsdict[i]>> : i \in added_params}

update_assembly(obj, save_ok) ==
    LET new_assembly   == Assembly(<<"update">>)
        d1             == SetAttr(obj, "_hackersonly", new_assembly._hackersonly)
        new_params     == DOMAIN new_assembly.paramsdict
        my_params      == DOMAIN obj.paramsdict
        removed_params == my_params \ new_params
        added_params   == new_params \ my_params
        d2 == IF added_params # {}
              THEN [d1 EXCEPT !.paramsdict =
                        MergedParams(new_assembly, obj, removed_params)]
              ELSE d1
        saved == Save(d2, save_ok)
    IN  [out     |-> IF save_ok THEN Return(d2)
                                ELSE Raise("IOError", <<>>, <<d2>>),
         events  |-> <<Event("update_assembly", obj, save_ok,
                             Notices(new_assembly, obj, removed_params,
                                     added_params))>> \o saved]

(***************************************************************************)
(* load_assembly: the snapshot loader.                                     *)
(***************************************************************************)
Locations(name) == <<name, name \o <<".assembly">>>>

\* One pass of "for name in locations": st is the function's locals
\* (data, unbound as <<>>) with what the pass has logged and printed.
LoadPass(st, fs, name, quiet, save_ok) ==
    IF fs[name] = <<>>
    THEN st                                   \* open: IOError, pass
    ELSE
      LET obj == fs[name][1]                  \* data = dill.load(pickin)
          pr  == IF quiet THEN st.printed
                 ELSE Append(st.printed,
                             [name |-> obj.name, path |-> ShortName(name)])
          t   == test_assembly(obj)
          tev == <<Event("test_assembly", obj, t.kind = "return", {})>>
      IN  IF t.kind = "raise"
          THEN [data |-> <<obj>>, log |-> st.log \o tev, printed |-> pr]
          ELSE IF ~t.flag
          THEN [data |-> <<obj>>, log |-> st.log \o tev, printed |-> pr]
          ELSE LET u == update_assembly(obj, save_ok)
               IN  [data    |-> u.out.data,
                    log     |-> st.log \o tev \o u.events,
                    printed |-> pr]

RECURSIVE LoadLoop(_, _, _, _, _)
LoadLoop(st, fs, locations, quiet, saves) ==
    IF locations = <<>> THEN st
    ELSE LoadLoop(LoadPass(st, fs, Head(locations), quiet, Head(saves)),
                  fs, Tail(locations), quiet, Tail(saves))

NotFoundNameLast(name) == Locations(name)[2]

NotFoundName(name) == name

load_assembly(name, fs, quiet, saves) ==
    LET st == LoadLoop([data |-> <<>>, log |-> <<>>, printed |-> <<>>],
                       fs, Locations(name), quiet, saves)
    IN  [out |-> IF st.data = <<>>
                 THEN Raise("AssertionError", NotFoundName(name), <<>>)
                 ELSE Return(st.data[1]),
         log |-> st.log,
         printed |-> st.printed]

(***************************************************************************)
(* The snapshot loader as a state machine: the file system is any, and     *)
(* one of the three functions is called on it.  The functions keep no      *)
(* state between calls, so a behaviour is one call.                        *)
(***************************************************************************)
FileContents == {<<>>} \cup {<<o>> : o \in StoredObjects}

BinInit ==
    /\ call = "none"
    /\ arg = <<>>
    /\ ret = NoResult
    /\ log = <<>>
    /\ printed = <<>>

JsonIdle ==
    /\ data = <<>>
    /\ pc = "idle"
    /\ done = 0
    /\ interrupts = 0
    /\ hit = "none"
    /\ jpath = <<>>
    /\ jret = NoResult
    /\ jprinted = <<>>

Init ==
    /\ assemblyname \in AssemblyNames
    /\ disk \in [{Locations(assemblyname)[1], Locations(assemblyname)[2]}
                    -> FileContents]
    /\ BinInit
    /\ jdisk = <<>>
    /\ JsonIdle

LoadAssemblyCall ==
    /\ call = "none"
    /\ \E quiet \in BOOLEAN, saves \in [1..2 -> BOOLEAN] :
         LET r == load_assembly(assemblyname, disk, quiet, saves)
         IN  /\ call' = "load_assembly"
             /\ arg' = <<>>
             /\ ret' = r.out
             /\ log' = r.log
             /\ printed' = r.printed
             /\ UNCHANGED <<assemblyname, disk, jsonvars>>

TestAssemblyCall ==
    \E p \in DOMAIN disk :
        /\ call = "none"
        /\ disk[p] # <<>>
        /\ call' = "test_assembly"
        /\ arg' = disk[p]
        /\ ret' = test_assembly(disk[p][1])
        /\ log' = <<>>
        /\ printed' = <<>>
        /\ UNCHANGED <<assemblyname, disk, jsonvars>>

UpdateAssemblyCall ==
    \E p \in DOMAIN disk, save_ok \in BOOLEAN :
        /\ call = "none"
        /\ disk[p] # <<>>
        /\ LET u == update_assembly(disk[p][1], save_ok)
           IN  /\ call' = "update_assembly"
               /\ arg' = disk[p]
               /\ ret' = u.out
               /\ log' = u.events
               /\ printed' = <<>>
        /\ UNCHANGED <<assemblyname, disk, jsonvars>>

Next == LoadAssemblyCall \/ TestAssemblyCall \/ UpdateAssemblyCall

Spec == Init /\ [][Next]_vars

(***************************************************************************)
(* The structured text codec.                                              *)
(*                                                                         *)
(* Samples.  ip.Sample() builds an empty Sample; _to_fulldict() is its     *)
(* attributes as a plain mapping.                                          *)
(***************************************************************************)
SampleNames == {"s" \o ToString(i) : i \in 1..MaxSamples}

NewSample ==
    [name       |-> "",
     stats      |-> [state |-> 0],
     statsfiles |-> [s1 |-> [reads_raw |-> 0]],
     files      |-> [fastqs |-> <<>>]]

SampleOf(n) ==
    [name       |-> n,
     stats      |-> [state |-> 1],
     statsfiles |-> [s1 |-> [reads_raw |-> 1]],
     files      |-> [fastqs |-> <<n>>]]

ToFulldict(sample) == sample

(***************************************************************************)
(* The Assemblies a running program holds: their parameters are those of   *)
(* the current schema.  An Assembly may be named as a file is.             *)
(***************************************************************************)
ProjectDir == <<"p">>
JsonNames  == {<<"a">>, <<"a", ".json">>}
Overhangs  == {<<"TGCAG">>, <<"CATG">>}

JsonAssemblies ==
    {[Assembly(n) EXCEPT
        !.dirs       = [project |-> ProjectDir],
        !.paramsdict = [k \in NewParamKeys |->
                           IF k = "assembly_name" THEN Str(n)
                           ELSE Value(ParamType(k), e)],
        !.samples    = [x \in ss |-> SampleOf(x)]] :
        n \in JsonNames, e \in Overhangs, ss \in SUBSET SampleNames}

\* os.path.join
Join(dir, file) == dir \o <<"/">> \o file

\* os.path.splitext(name)[0]
SplitExt(name) ==
    IF name # <<>> /\ name[Len(name)] \in {".json", ".assembly"}
    THEN SubSeq(name, 1, Len(name) - 1)
    ELSE name

(***************************************************************************)
(* json.dumps / json.loads.  The text of a file is modelled by the         *)
(* document it parses to; JSON has arrays only, so a tuple is a list when  *)
(* read back.  NotJson is a text that does not parse (an empty or a        *)
(* truncated file), Malformed a document whose "assembly" entry is a       *)
(* string.                                                                 *)
(***************************************************************************)
JsonValue(v) == IF v.type = "tuple" THEN Value("list", v.val) ELSE v

NotJson   == [text |-> "truncated"]
Malformed == [assembly |-> "text"]

IsJson(content)     == "text" \notin DOMAIN content
IsDocument(content) == DOMAIN content = {"assembly", "samples"}

\* Assembly.set_params(param, val): the value as the schema types it
set_params(param, val) == Value(ParamType(param), val.val)

(***************************************************************************)
(* save_json, up to its write loop: the document and the path.             *)
(***************************************************************************)
datadict(obj) ==
    [_version    |-> obj._version,
     name        |-> obj.name,
     dirs        |-> obj.dirs,
     paramsdict  |-> [k \in DOMAIN obj.paramsdict |-> JsonValue(obj.paramsdict[k])],
     samples     |-> DOMAIN obj.samples,
     populations |-> obj.populations,
     database    |-> obj.database,
     outfiles    |-> obj.outfiles,
     barcodes    |-> obj.barcodes]

sampledict(obj) == [key \in DOMAIN obj.samples |-> ToFulldict(obj.samples[key])]

fulldump(obj) == [assembly |-> datadict(obj), samples |-> sampledict(obj)]

assemblypath(obj) == Join(obj.dirs.project, obj.name \o <<".json">>)

(***************************************************************************)
(* load_json.  The lost-key warnings it sends to LOGGER (lines 246-255    *)
(* and 271-295) change no state of the function and are left out; the      *)
(* look at the first sample that feeds them (lines 262-268) is kept.       *)
(***************************************************************************)
CheckFor(path) == <<path, path \o <<".json">>>>

\* "for inpath in checkfor": st is the locals fullj (unbound as <<>>) and
\* inpath, and the exception that left the loop, if one did.
RECURSIVE ReadLoop(_, _, _)
ReadLoop(st, fs, checkfor) ==
    IF checkfor = <<>> \/ st.exc # "" THEN st
    ELSE LET inpath == Head(checkfor)
             next ==
                 IF fs[inpath] = <<>>
                 THEN [st EXCEPT !.inpath = inpath]          \* IOError: pass
                 ELSE IF ~IsJson(fs[inpath][1])
                 THEN [st EXCEPT !.inpath = inpath, !.exc = "ValueError"]
                 ELSE [fullj |-> fs[inpath], inpath |-> inpath, exc |-> ""]
         IN  ReadLoop(next, fs, Tail(checkfor))

\* one Sample rebuilt from its dump
LoadSample(dump, sample_keys, statsfiles_keys) ==
    LET newkeys     == DOMAIN NewSample
        shared_keys == (sample_keys \cap newkeys) \ {"stats", "statsfiles"}
    IN  [a \in newkeys |->
            IF a = "stats" THEN dump.stats
            ELSE IF a = "statsfiles"
            THEN [k \in statsfiles_keys |-> dump.statsfiles[k]]
            ELSE IF a \in shared_keys THEN dump[a]
            ELSE IF a = "files" THEN [f \in {} |-> <<>>]
            ELSE NewSample[a]]

\* Assembly.build_stat(statskey): the category's record of every Sample
build_stat(samples, statskey) ==
    [x \in DOMAIN samples |-> samples[x].statsfiles[statskey]]

\* the path the "Could not find saved Assembly file" error names
JsonErrorPath(path, inpath) == inpath

LoadJsonBody(fullj, quiet) ==
    LET oldname    == fullj.assembly.name
        olddir     == fullj.assembly.dirs.project
        oldpath    == Join(olddir, SplitExt(oldname) \o <<".json">>)
        null0      == Assembly(oldname)
        notice     == IF quiet THEN <<>>
                      ELSE <<[name |-> oldname, path |-> ShortName(oldpath)]>>
        samplekeys == fullj.assembly.samples
        oldparams  == fullj.assembly.paramsdict
        null1      == [null0 EXCEPT !.paramsdict =
                         [k \in DOMAIN @ |->
                             IF k \in DOMAIN oldparams /\ k # "assembly_name"
                             THEN set_params(k, oldparams[k]) ELSE @[k]]]
        newkeys    == DOMAIN null1
        oldkeys    == DOMAIN fullj.assembly \ {"name", "samples", "paramsdict"}
        sharedkeys == oldkeys \cap newkeys
        null2      == [a \in newkeys |->
                         IF a \in sharedkeys THEN fullj.assembly[a] ELSE null1[a]]
        sample_names == DOMAIN fullj.samples
    IN  IF sample_names = {}
        THEN [out |-> Raise("IndexError", <<>>, <<>>), printed |-> notice]
        ELSE
          LET first           == fullj.samples[CHOOSE n \in sample_names : TRUE]
              sample_keys     == DOMAIN first
              statsfiles_keys == DOMAIN first.statsfiles
          IN  IF \E x \in samplekeys : x \notin sample_names
              THEN [out |-> Raise("KeyError", <<>>, <<>>), printed |-> notice]
              ELSE
                LET samples == [x \in samplekeys |->
                                   LoadSample(fullj.samples[x], sample_keys,
                                              statsfiles_keys)]
                    null3   == [null2 EXCEPT
                                   !.samples = samples,
                                   !.statsfiles =
                                       [k \in {c \in statsfiles_keys :
                                                 DOMAIN build_stat(samples, c) # {}}
                                           |-> build_stat(samples, k)]]
                IN  [out |-> Return(null3), printed |-> notice]

load_json(path, fs, quiet) ==
    LET rd == ReadLoop([fullj |-> <<>>, inpath |-> <<>>, exc |-> ""],
                       fs, CheckFor(path))
    IN  IF rd.exc # ""
        THEN [out |-> Raise(rd.exc, <<>>, <<>>), printed |-> <<>>]
        ELSE IF rd.fullj = <<>>
        THEN [out |-> Raise("UnboundLocalError", <<>>, <<>>), printed |-> <<>>]
        ELSE IF ~IsDocument(rd.fullj[1])
        THEN [out |-> Raise("IPyradWarningExit",
                            JsonErrorPath(path, rd.inpath), <<>>),
              printed |-> <<>>]
        ELSE LoadJsonBody(rd.fullj[1], quiet)

(***************************************************************************)
(* The text codec as a state machine.  save_json runs statement by         *)
(* statement, since a signal may arrive between any two; load_json is one  *)
(* step.                                                                   *)
(***************************************************************************)
LoadPaths == {Join(ProjectDir, <<"a">>), Join(ProjectDir, <<"a", ".json">>)}
JsonPaths == LoadPaths
             \cup {CheckFor(q)[2] : q \in LoadPaths}
             \cup {assemblypath(a) : a \in JsonAssemblies}

TryBody == {"open", "write", "close", "set_done"}

InitJson ==
    /\ assemblyname = <<"proj">>
    /\ disk = <<>>
    /\ BinInit
    /\ jdisk \in [JsonPaths -> {<<>>, <<NotJson>>, <<Malformed>>}]
    /\ JsonIdle

savevars == <<data, pc, done, interrupts, hit>>
loadvars == <<jpath, jret, jprinted>>

\* save_json(data), lines 153-182
SaveJsonCall ==
    /\ pc \in {"idle", "returned", "raised"}
    /\ \E a \in JsonAssemblies : data' = <<a>>
    /\ pc' = "while"
    /\ done' = 0
    /\ hit' = "none"
    /\ jpath' = <<>>
    /\ jret' = NoResult
    /\ jprinted' = <<>>
    /\ UNCHANGED <<binvars, jdisk, interrupts>>

\* while not done
While ==
    /\ pc = "while"
    /\ pc' = IF done = 0 THEN "open" ELSE "returned"
    /\ UNCHANGED <<binvars, jdisk, data, done, interrupts, hit, loadvars>>

\* open(assemblypath, 'w'): the file is there, and empty
Open ==
    /\ pc = "open"
    /\ jdisk' = [jdisk EXCEPT ![assemblypath(data[1])] = <<NotJson>>]
    /\ pc' = "write"
    /\ UNCHANGED <<binvars, data, done, interrupts, hit, loadvars>>

\* jout.write(fulldump)
Write ==
    /\ pc = "write"
    /\ jdisk' = [jdisk EXCEPT ![assemblypath(data[1])] = <<fulldump(data[1])>>]
    /\ pc' = "close"
    /\ UNCHANGED <<binvars, data, done, interrupts, hit, loadvars>>

\* leaving the with block closes the file
Close ==
    /\ pc = "close"
    /\ pc' = "set_done"
    /\ UNCHANGED <<binvars, jdisk, data, done, interrupts, hit, loadvars>>

\* done = 1
SetDone ==
    /\ pc = "set_done"
    /\ done' = 1
    /\ pc' = "while"
    /\ UNCHANGED <<binvars, jdisk, data, interrupts, hit, loadvars>>

\* except (KeyboardInterrupt, SystemExit): print('.'); continue
Except ==
    /\ pc = "except"
    /\ pc' = "while"
    /\ UNCHANGED <<binvars, jdisk, data, done, interrupts, hit, loadvars>>

ExceptTargetPropagates == "raised"

\* where a KeyboardInterrupt or SystemExit raised in the try body goes
ExceptTarget == "except"

\* A signal while the try body runs.  One that cuts open short may or may
\* not have created the file; one that cuts write short leaves a part of
\* the text.
InterruptInTry ==
    /\ pc \in TryBody
    /\ interrupts < MaxInterrupts
    /\ interrupts' = interrupts + 1
    /\ hit' = pc
    /\ pc' = ExceptTarget
    /\ \/ /\ pc \in {"open", "write"}
          /\ jdisk' = [jdisk EXCEPT ![assemblypath(data[1])] = <<NotJson>>]
       \/ /\ pc # "write"
          /\ jdisk' = jdisk
    /\ UNCHANGED <<binvars, data, done, loadvars>>

\* A signal outside the try statement: nothing catches it.
InterruptOutside ==
    /\ pc \in {"while", "except"}
    /\ interrupts < MaxInterrupts
    /\ interrupts' = interrupts + 1
    /\ hit' = pc
    /\ pc' = "raised"
    /\ UNCHANGED <<binvars, jdisk, data, done, loadvars>>

LoadJsonCall ==
    /\ pc \in {"idle", "returned", "raised"}
    /\ \E path \in LoadPaths, quiet \in BOOLEAN :
         LET r == load_json(path, jdisk, quiet)
         IN  /\ jpath' = path
             /\ jret' = r.out
             /\ jprinted' = r.printed
    /\ UNCHANGED <<binvars, jdisk, savevars>>

SaveStep == While \/ Open \/ Write \/ Close \/ SetDone \/ Except

\* save_json and load_json, called in any order, no signal arriving
NextJson ==
    \/ SaveJsonCall
    \/ While
    \/ Open
    \/ Write
    \/ Close
    \/ SetDone
    \/ LoadJsonCall

SpecJson == InitJson /\ [][NextJson]_vars

\* one call of save_json, signals arriving; the interpreter keeps running
\* the function
FirstSaveJsonCall == pc = "idle" /\ SaveJsonCall

NextSave ==
    \/ FirstSaveJsonCall
    \/ While
    \/ Open
    \/ Write
    \/ Close
    \/ SetDone
    \/ Except
    \/ InterruptInTry
    \/ InterruptOutside

SpecSave == InitJson /\ [][NextSave]_vars /\ WF_vars(SaveStep)

(***************************************************************************)
(* Properties of the snapshot loader, checked under Spec.                  *)
(***************************************************************************)
Literal == Locations(assemblyname)[1]
WithExt == Locations(assemblyname)[2]

TestEvents == {i \in DOMAIN log : log[i].ev = "test_assembly"}

\* The schema differ's criterion; an object without the attribute has none
\* of its keys.
Drifted(obj) ==
    \/ NewParamKeys \ DOMAIN obj.paramsdict # {}
    \/ ~HasAttr(obj, "_hackersonly")
    \/ NewHackerKeys \ DOMAIN obj._hackersonly # {}

\* C1: whenever load_assembly returns an object, the key set of its
\* paramsdict is the current schema's key set, whatever keys the stored
\* snapshot had (missing ones, extra ones, or both).
LoadedParamsMatchSchema ==
    (call = "load_assembly" /\ ret.kind = "return")
        => DOMAIN ret.data[1].paramsdict = NewParamKeys

\* C2: the object update_assembly returns has exactly the current key set:
\* a key of both key sets keeps the loaded value, a key only in the current
\* set has the reference default, a key only in the loaded set is gone.
MigratorYieldsCurrentKeySet ==
    (call = "update_assembly" /\ ret.kind = "return") =>
        LET old == arg[1].paramsdict
            new == ret.data[1].paramsdict
            ref == Assembly(<<"update">>).paramsdict
        IN  /\ DOMAIN new = NewParamKeys
            /\ \A k \in NewParamKeys \cap DOMAIN old : new[k] = old[k]
            /\ \A k \in NewParamKeys \ DOMAIN old : new[k] = ref[k]

\* C3 (snapshot loader): when both candidate files open, load_assembly
\* returns the object of the literal name and runs the differ at most once,
\* on that object.
LoadAssemblyUsesFirstCandidate ==
    (call = "load_assembly" /\ disk[Literal] # <<>> /\ disk[WithExt] # <<>>) =>
        /\ ret.kind = "return"
        /\ ret.data[1].name = disk[Literal][1].name
        /\ Cardinality(TestEvents) <= 1
        /\ \A i \in TestEvents : log[i].data = disk[Literal][1]

\* C8: when neither candidate opens, load_assembly raises the not-found
\* error naming the requested name as given (no candidate path, no
\* home-shortened name), and has run neither the differ nor the migrator
\* nor a save.
LoadAssemblyNotFound ==
    (call = "load_assembly" /\ disk[Literal] = <<>> /\ disk[WithExt] = <<>>) =>
        /\ ret.kind = "raise"
        /\ ret.exc = "AssertionError"
        /\ ret.msg = assemblyname
        /\ ret.msg # WithExt
        /\ (HomeDir \in {assemblyname[i] : i \in DOMAIN assemblyname}
               => ret.msg # ShortName(assemblyname))
        /\ ret.data = <<>>
        /\ log = <<>>

LoadAssemblyNotFoundWitness ==
    /\ call = "load_assembly"
    /\ disk[Literal] = <<>> /\ disk[WithExt] = <<>>
    /\ assemblyname[1] = HomeDir
    /\ ret.kind = "raise"

\* C9: test_assembly returns true exactly when the reference has a
\* parameter key or a _hackersonly key the loaded object lacks, and leaves
\* the loaded object as it was.
TestAssemblyDiffer ==
    (call = "test_assembly" /\ ret.kind = "return") =>
        /\ ret.flag <=> (\/ NewParamKeys \ DOMAIN arg[1].paramsdict # {}
                         \/ NewHackerKeys \ DOMAIN arg[1]._hackersonly # {})
        /\ ret.data = arg

\* a loaded object with only removed fields: both key sets are strict
\* supersets of the reference's, and the differ says false
TestAssemblyDifferWitness ==
    /\ call = "test_assembly"
    /\ ret.kind = "return"
    /\ ~ret.flag
    /\ DOMAIN arg[1].paramsdict \ NewParamKeys # {}
    /\ DOMAIN arg[1]._hackersonly \ NewHackerKeys # {}

\* C10: an object load_assembly returns whose snapshot had drifted was
\* migrated (its _hackersonly is the reference's) and then saved exactly
\* once, successfully, in the state that is returned.
DriftedObjectMigratedAndSaved ==
    (call = "load_assembly" /\ ret.kind = "return") =>
        \A i \in TestEvents :
            (i = Len(log) \/ \A j \in (i+1)..Len(log) : j \notin TestEvents)
            /\ Drifted(log[i].data)
            =>
            /\ Len(log) = i + 2
            /\ log[i+1].ev = "update_assembly"
            /\ log[i+1].data = log[i].data
            /\ log[i+1].ok
            /\ log[i+2] = Event("save", ret.data[1], TRUE, {})
            /\ ret.data[1]._hackersonly = Assembly(<<"update">>)._hackersonly

(***************************************************************************)
(* Properties of the text codec, checked under SpecJson and SpecSave.      *)
(* jret is reset when a save_json call starts, so while jret holds a       *)
(* result jdisk is the file system load_json read.                         *)
(***************************************************************************)
Cand1 == CheckFor(jpath)[1]
Cand2 == CheckFor(jpath)[2]

\* C3 (text loader): when both candidate files open, load_json builds its
\* result from the document of the literal path.
LoadJsonUsesFirstCandidate ==
    (jret.kind = "return" /\ jdisk[Cand1] # <<>> /\ jdisk[Cand2] # <<>>
        /\ IsDocument(jdisk[Cand1][1]))
        => jret.data[1].name = jdisk[Cand1][1].assembly.name

\* C3: both loaders try the literal name first, the name with the extension
\* second, and use the first candidate that opens; the second never
\* replaces the result of the first.
LoadersUseFirstCandidate ==
    LoadAssemblyUsesFirstCandidate /\ LoadJsonUsesFirstCandidate

\* C4: when neither candidate opens, load_json fails with the "could not
\* find saved Assembly file" error (IPyradWarningExit) naming the requested
\* name; no other exception escapes and nothing is returned.
LoadJsonNotFound ==
    (jret.kind # "none" /\ jdisk[Cand1] = <<>> /\ jdisk[Cand2] = <<>>) =>
        /\ jret.kind = "raise"
        /\ jret.exc = "IPyradWarningExit"
        /\ jret.msg = jpath
        /\ jret.data = <<>>

\* C5: loading a document whose sample-name list and samples section are
\* empty returns an Assembly whose samples mapping is empty.
EmptySamplesDocument(content) ==
    /\ IsDocument(content)
    /\ content.assembly.samples = {}
    /\ DOMAIN content.samples = {}

LoadJsonEmptySamples ==
    (/\ jret.kind # "none"
     /\ \E c \in {Cand1, Cand2} : jdisk[c] # <<>>
     /\ \A c \in {Cand1, Cand2} :
            jdisk[c] # <<>> => EmptySamplesDocument(jdisk[c][1]))
        => /\ jret.kind = "return"
           /\ DOMAIN jret.data[1].samples = {}

\* what the round trip promises of the call's result
RoundTripResult ==
    /\ jret.kind = "return"
    /\ jret.data[1].name = data[1].name
    /\ DOMAIN jret.data[1].samples = DOMAIN data[1].samples
    /\ \A k \in DOMAIN data[1].paramsdict \ {"assembly_name"} :
           jret.data[1].paramsdict[k] = data[1].paramsdict[k]

\* load_json was called on the file the last save_json wrote, for an
\* Assembly with at least one sample
RoundTripCase ==
    /\ pc = "returned"
    /\ jret.kind # "none"
    /\ jpath = assemblypath(data[1])
    /\ DOMAIN data[1].samples # {}

\* C7: load_json of the file save_json(A) wrote returns an Assembly with
\* A's name, A's sample names and A's value for every parameter other
\* than assembly_name.
TextRoundTrip == RoundTripCase => RoundTripResult

\* The round trip where no file has the written file's name with ".json"
\* appended: the case the missing break of the candidate loop leaves alone.
TextRoundTripSingleCandidate ==
    (RoundTripCase /\ jdisk[Cand2] = <<>>) => RoundTripResult

\* C6: in save_json a signal raised inside a write attempt is never
\* propagated; save_json returns only with done set by a whole attempt, the
\* file then holding the complete document; and with finitely many signals
\* the call ends.
SaveJsonSurvivesInterrupts ==
    /\ [](pc = "raised" => hit \notin TryBody)
    /\ [](pc = "returned" =>
            /\ done = 1
            /\ jdisk[assemblypath(data[1])] = <<fulldump(data[1])>>)
    /\ [](pc = "while" => <>(pc \in {"returned", "raised"}))

\* save_json has returned after every signal of the budget, the last one
\* cutting a write short
SaveJsonSurvivesInterruptsWitness ==
    /\ pc = "returned"
    /\ interrupts = MaxInterrupts
    /\ interrupts >= 2
    /\ hit = "write"

====
